---- MODULE Spec2Model ----
(***************************************************************************)
(* The BPF syscall wrappers of libbpf_android/include/bpf/BpfUtils.h.      *)
(*                                                                         *)
(* Every wrapper builds one bpf_attr record with a braced initializer,     *)
(* hands it to bpf(), which issues one syscall(__NR_bpf, cmd, &attr,       *)
(* sizeof(attr)) and returns its result.  The kernel behind the syscall is *)
(* not part of the repository: it is modelled as the environment, a hash   *)
(* map store with a descriptor table, a pin namespace and one control      *)
(* group, following the operation table of the specification.              *)
(***************************************************************************)
EXTENDS Integers, Sequences, FiniteSets, TLC

VARIABLES kernel, hist, window, enum, pc, slots, tres

vars == <<kernel, hist, window, enum, pc, slots, tres>>

(***************************************************************************)
(* Bounds of the model.                                                    *)
(***************************************************************************)
\* Highest descriptor number the process may hold (3 and 4 are open at start).
MaxFd == 5
\* max_entries ranges over 1..MaxEntries in the createMap calls of the model.
MaxEntries == 2
\* Number of concurrent caller threads in the concurrent specification.
NThreads == 2

\* Byte values of keys and values.
Bytes == {0, 1}
KeySizes == {1}
ValueSizes == {1}

(***************************************************************************)
(* Caller-owned buffers.  A pointer is the address of a buffer; the        *)
(* attribute record carries it as a 64-bit integer.                        *)
(***************************************************************************)
NULL == 0
KeyBuf == 1
ValueBuf == 2
NextKeyBuf == 3
PathBuf == 4

\* Two pinned-path names, as the byte strings "/a" and "/b".
Paths == {<<47, 97>>, <<47, 98>>}

\* #define ptr_to_u64(x) ((uint64_t)(uintptr_t)(x)): the address, widened.
\* Addresses of the model are small naturals, which the cast preserves.
ptr_to_u64(x) == x

\* The content of a buffer the kernel has not written.
Untouched == <<>>

\* The caller's memory at the time of a call: its key, value and path buffers.
Memory(key, value, path) ==
    [a \in {KeyBuf, ValueBuf, NextKeyBuf, PathBuf} |->
        CASE a = KeyBuf -> key
          [] a = ValueBuf -> value
          [] a = NextKeyBuf -> Untouched
          [] OTHER -> path]

(***************************************************************************)
(* bpf_attr.  The union's per-command anonymous structs are flattened into *)
(* one record; `rest` stands for every byte of the union that lies outside *)
(* the members of the struct the initializer names (the tail of the union  *)
(* beyond that struct and the padding inside it): 0 when all those bytes   *)
(* are zero, 1 when some byte is not.                                      *)
(***************************************************************************)
ZeroAttr ==
    [map_type |-> 0, key_size |-> 0, value_size |-> 0, max_entries |-> 0,
     map_flags |-> 0, map_fd |-> 0, key |-> 0, value |-> 0, next_key |-> 0,
     flags |-> 0, pathname |-> 0, bpf_fd |-> 0, file_flags |-> 0,
     target_fd |-> 0, attach_bpf_fd |-> 0, attach_type |-> 0, rest |-> 0]

(***************************************************************************)
(* A braced initializer of a union initializes the one member it names     *)
(* (here an anonymous struct, whose unnamed fields become zero).  The      *)
(* bytes of the union outside that member are not initialized by the       *)
(* language: a build may zero them or leave what the stack held.           *)
(***************************************************************************)
UnsetBytes == {0, 1}

(***************************************************************************)
(* The kernel (environment).                                               *)
(***************************************************************************)
NoObj == [kind |-> "none", id |-> 0]
Prog == [kind |-> "prog", id |-> 1]
Cgroup == [kind |-> "cgroup", id |-> 1]
MapObj(i) == [kind |-> "map", id |-> i]

ProgFd == 3
CgFd == 4

MapTypes == {0, 1}          \* BPF_MAP_TYPE_UNSPEC, BPF_MAP_TYPE_HASH
MapFlags == {0, 1}          \* none, BPF_F_NO_PREALLOC
WriteFlags == {0, 1, 2}     \* BPF_ANY, BPF_NOEXIST, BPF_EXIST
AttachTypes == {0, 1}       \* BPF_CGROUP_INET_INGRESS, BPF_CGROUP_INET_EGRESS
FileFlags == {0, 8}         \* none, BPF_F_RDONLY

Ok(r, K, M) == [ret |-> r, err |-> "none", K |-> K, M |-> M]
Fail(e, K, M) == [ret |-> -1, err |-> e, K |-> K, M |-> M]

IsOpen(K, fd) == fd \in DOMAIN K.fdt /\ K.fdt[fd].kind # "none"
FreeFds(K) == {fd \in DOMAIN K.fdt : K.fdt[fd].kind = "none"}
LowestFree(K) == CHOOSE fd \in FreeFds(K) : \A g \in FreeFds(K) : fd <= g

\* Index of key k in the entry list es, 0 when absent.
IndexOf(es, k) ==
    IF \E i \in 1..Len(es) : es[i].k = k
    THEN CHOOSE i \in 1..Len(es) : es[i].k = k
    ELSE 0

\* copy_from_user of n bytes at addr.
CopyIn(M, addr, n) == SubSeq(M[addr], 1, n)
Readable(M, addr, n) == addr \in DOMAIN M /\ Len(M[addr]) >= n /\ n >= 1

sys_map_create(attr, K, M) ==
    IF attr.map_type # 1 \/ attr.key_size < 1 \/ attr.value_size < 1
         \/ attr.max_entries < 1
    THEN Fail("EINVAL", K, M)
    ELSE IF FreeFds(K) = {} THEN Fail("EMFILE", K, M)
    ELSE LET fd == LowestFree(K)
             id == Len(K.maps) + 1
             m == [key_size |-> attr.key_size, value_size |-> attr.value_size,
                   max_entries |-> attr.max_entries, entries |-> <<>>]
         IN Ok(fd, [K EXCEPT !.fdt[fd] = MapObj(id),
                             !.maps = Append(K.maps, m)], M)

MapOf(K, fd) == K.maps[K.fdt[fd].id]
IsMapFd(K, fd) == IsOpen(K, fd) /\ K.fdt[fd].kind = "map"

sys_map_update_elem(attr, K, M) ==
    IF ~IsOpen(K, attr.map_fd) THEN Fail("EBADF", K, M)
    ELSE IF ~IsMapFd(K, attr.map_fd) THEN Fail("EINVAL", K, M)
    ELSE LET id == K.fdt[attr.map_fd].id
             m == K.maps[id]
         IN IF attr.flags \notin WriteFlags THEN Fail("EINVAL", K, M)
            ELSE IF ~Readable(M, attr.key, m.key_size)
                      \/ ~Readable(M, attr.value, m.value_size)
            THEN Fail("EFAULT", K, M)
            ELSE LET k == CopyIn(M, attr.key, m.key_size)
                     v == CopyIn(M, attr.value, m.value_size)
                     i == IndexOf(m.entries, k)
                 IN IF i # 0 /\ attr.flags = 1 THEN Fail("EEXIST", K, M)
                    ELSE IF i = 0 /\ attr.flags = 2 THEN Fail("ENOENT", K, M)
                    ELSE IF i = 0 /\ Len(m.entries) >= m.max_entries
                    THEN Fail("ENOSPC", K, M)
                    ELSE IF i = 0
                    THEN Ok(0, [K EXCEPT !.maps[id].entries =
                                   <<[k |-> k, v |-> v]>> \o m.entries], M)
                    ELSE Ok(0, [K EXCEPT !.maps[id].entries[i].v = v], M)

sys_map_lookup_elem(attr, K, M) ==
    IF ~IsOpen(K, attr.map_fd) THEN Fail("EBADF", K, M)
    ELSE IF ~IsMapFd(K, attr.map_fd) THEN Fail("EINVAL", K, M)
    ELSE LET m == MapOf(K, attr.map_fd)
         IN IF ~Readable(M, attr.key, m.key_size) \/ attr.value \notin DOMAIN M
            THEN Fail("EFAULT", K, M)
            ELSE LET i == IndexOf(m.entries, CopyIn(M, attr.key, m.key_size))
                 IN IF i = 0 THEN Fail("ENOENT", K, M)
                    ELSE Ok(0, K, [M EXCEPT ![attr.value] = m.entries[i].v])

sys_map_delete_elem(attr, K, M) ==
    IF ~IsOpen(K, attr.map_fd) THEN Fail("EBADF", K, M)
    ELSE IF ~IsMapFd(K, attr.map_fd) THEN Fail("EINVAL", K, M)
    ELSE LET id == K.fdt[attr.map_fd].id
             m == K.maps[id]
         IN IF ~Readable(M, attr.key, m.key_size) THEN Fail("EFAULT", K, M)
            ELSE LET i == IndexOf(m.entries, CopyIn(M, attr.key, m.key_size))
                 IN IF i = 0 THEN Fail("ENOENT", K, M)
                    ELSE Ok(0, [K EXCEPT !.maps[id].entries =
                                   SubSeq(m.entries, 1, i - 1)
                                   \o SubSeq(m.entries, i + 1, Len(m.entries))], M)

sys_map_get_next_key(attr, K, M) ==
    IF ~IsOpen(K, attr.map_fd) THEN Fail("EBADF", K, M)
    ELSE IF ~IsMapFd(K, attr.map_fd) THEN Fail("EINVAL", K, M)
    ELSE LET m == MapOf(K, attr.map_fd)
         IN IF attr.next_key \notin DOMAIN M THEN Fail("EFAULT", K, M)
            ELSE IF attr.key # NULL /\ ~Readable(M, attr.key, m.key_size)
            THEN Fail("EFAULT", K, M)
            ELSE LET i == IF attr.key = NULL THEN 0
                          ELSE IndexOf(m.entries, CopyIn(M, attr.key, m.key_size))
                 IN IF i + 1 > Len(m.entries) THEN Fail("ENOENT", K, M)
                    ELSE Ok(0, K, [M EXCEPT ![attr.next_key] = m.entries[i + 1].k])

sys_obj_pin(attr, K, M) ==
    IF ~IsOpen(K, attr.bpf_fd) THEN Fail("EBADF", K, M)
    ELSE IF K.fdt[attr.bpf_fd].kind \notin {"map", "prog"} THEN Fail("EINVAL", K, M)
    ELSE IF attr.pathname \notin DOMAIN M \/ M[attr.pathname] \notin Paths
    THEN Fail("EFAULT", K, M)
    ELSE LET p == M[attr.pathname]
         IN IF K.pins[p] # NoObj THEN Fail("EEXIST", K, M)
            ELSE Ok(0, [K EXCEPT !.pins[p] = K.fdt[attr.bpf_fd]], M)

sys_obj_get(attr, K, M) ==
    IF attr.bpf_fd # 0 \/ attr.file_flags \notin FileFlags THEN Fail("EINVAL", K, M)
    ELSE IF attr.pathname \notin DOMAIN M \/ M[attr.pathname] \notin Paths
    THEN Fail("EFAULT", K, M)
    ELSE LET p == M[attr.pathname]
         IN IF K.pins[p] = NoObj THEN Fail("ENOENT", K, M)
            ELSE IF FreeFds(K) = {} THEN Fail("EMFILE", K, M)
            ELSE LET fd == LowestFree(K)
                 IN Ok(fd, [K EXCEPT !.fdt[fd] = K.pins[p]], M)

sys_prog_attach(attr, K, M) ==
    IF attr.attach_type \notin AttachTypes THEN Fail("EINVAL", K, M)
    ELSE IF ~IsOpen(K, attr.attach_bpf_fd) THEN Fail("EBADF", K, M)
    ELSE IF K.fdt[attr.attach_bpf_fd].kind # "prog" THEN Fail("EINVAL", K, M)
    ELSE IF ~IsOpen(K, attr.target_fd) THEN Fail("EBADF", K, M)
    ELSE IF K.fdt[attr.target_fd].kind # "cgroup" THEN Fail("EINVAL", K, M)
    ELSE Ok(0, [K EXCEPT !.att[attr.attach_type] = K.fdt[attr.attach_bpf_fd]], M)

sys_prog_detach(attr, K, M) ==
    IF attr.attach_type \notin AttachTypes THEN Fail("EINVAL", K, M)
    ELSE IF ~IsOpen(K, attr.target_fd) THEN Fail("EBADF", K, M)
    ELSE IF K.fdt[attr.target_fd].kind # "cgroup" THEN Fail("EINVAL", K, M)
    ELSE IF K.att[attr.attach_type] = NoObj THEN Fail("ENOENT", K, M)
    ELSE Ok(0, [K EXCEPT !.att[attr.attach_type] = NoObj], M)

\* The kernel's bpf() entry: the strict check that every unused portion of
\* the attribute is zero, then the command.
Kernel(cmd, attr, K, M) ==
    IF attr.rest # 0 THEN Fail("E2BIG", K, M)
    ELSE CASE cmd = "BPF_MAP_CREATE" -> sys_map_create(attr, K, M)
           [] cmd = "BPF_MAP_UPDATE_ELEM" -> sys_map_update_elem(attr, K, M)
           [] cmd = "BPF_MAP_LOOKUP_ELEM" -> sys_map_lookup_elem(attr, K, M)
           [] cmd = "BPF_MAP_DELETE_ELEM" -> sys_map_delete_elem(attr, K, M)
           [] cmd = "BPF_MAP_GET_NEXT_KEY" -> sys_map_get_next_key(attr, K, M)
           [] cmd = "BPF_OBJ_PIN" -> sys_obj_pin(attr, K, M)
           [] cmd = "BPF_OBJ_GET" -> sys_obj_get(attr, K, M)
           [] cmd = "BPF_PROG_ATTACH" -> sys_prog_attach(attr, K, M)
           [] OTHER -> sys_prog_detach(attr, K, M)

(***************************************************************************)
(* The wrappers of BpfUtils.h.  Each is the attribute record its braced    *)
(* initializer builds, handed to bpf().  The parameter `rest` is the value *)
(* of the bytes the initializer does not name; K is the kernel's state and *)
(* M the caller's memory at the time of the call.  The result carries the  *)
(* value returned to the caller (ret, with errno in err), the kernel and   *)
(* memory after the call, and the syscalls issued (sys).                   *)
(***************************************************************************)
\* A bpf() that calls the kernel again when the first call fails.
bpfRetrying(cmd, attr, K, M) ==
    LET r == Kernel(cmd, attr, K, M)
        one == [cmd |-> cmd, attr |-> attr, ret |-> r.ret, err |-> r.err]
    IN IF r.ret >= 0
       THEN [ret |-> r.ret, err |-> r.err, K |-> r.K, M |-> r.M, sys |-> <<one>>]
       ELSE LET q == Kernel(cmd, attr, r.K, r.M)
            IN [ret |-> q.ret, err |-> q.err, K |-> q.K, M |-> q.M,
                sys |-> <<one, [cmd |-> cmd, attr |-> attr, ret |-> q.ret,
                                err |-> q.err]>>]

\* return syscall(__NR_bpf, cmd, &attr, sizeof(attr));
bpf(cmd, attr, K, M) ==
    LET r == Kernel(cmd, attr, K, M)
    IN [ret |-> r.ret, err |-> r.err, K |-> r.K, M |-> r.M,
        sys |-> <<[cmd |-> cmd, attr |-> attr, ret |-> r.ret, err |-> r.err]>>]

createMapAttr(map_type, key_size, value_size, max_entries, map_flags, rest) ==
    [ZeroAttr EXCEPT !.map_type = map_type, !.key_size = key_size,
                     !.value_size = value_size, !.max_entries = max_entries,
                     !.map_flags = map_flags, !.rest = rest]

createMap(map_type, key_size, value_size, max_entries, map_flags, rest, K, M) ==
    bpf("BPF_MAP_CREATE",
        createMapAttr(map_type, key_size, value_size, max_entries, map_flags,
                      rest), K, M)

writeToMapEntryAttr(map_fd, key, value, flags, rest) ==
    [ZeroAttr EXCEPT !.map_fd = map_fd, !.key = ptr_to_u64(key),
                     !.value = ptr_to_u64(value), !.flags = flags,
                     !.rest = rest]

writeToMapEntry(map_fd, key, value, flags, rest, K, M) ==
    bpf("BPF_MAP_UPDATE_ELEM", writeToMapEntryAttr(map_fd, key, value, flags, rest),
        K, M)

findMapEntryAttr(map_fd, key, value, rest) ==
    [ZeroAttr EXCEPT !.map_fd = map_fd, !.key = ptr_to_u64(key),
                     !.value = ptr_to_u64(value), !.rest = rest]

findMapEntry(map_fd, key, value, rest, K, M) ==
    bpf("BPF_MAP_LOOKUP_ELEM", findMapEntryAttr(map_fd, key, value, rest), K, M)

deleteMapEntryAttr(map_fd, key, rest) ==
    [ZeroAttr EXCEPT !.map_fd = map_fd, !.key = ptr_to_u64(key), !.rest = rest]

deleteMapEntry(map_fd, key, rest, K, M) ==
    bpf("BPF_MAP_DELETE_ELEM", deleteMapEntryAttr(map_fd, key, rest), K, M)

getNextMapKeyAttr(map_fd, key, next_key, rest) ==
    [ZeroAttr EXCEPT !.map_fd = map_fd, !.key = ptr_to_u64(key),
                     !.next_key = ptr_to_u64(next_key), !.rest = rest]

\* A getNextMapKey that issues the delete command with the same record.
getNextMapKeyDeleting(map_fd, key, next_key, rest, K, M) ==
    bpf("BPF_MAP_DELETE_ELEM", getNextMapKeyAttr(map_fd, key, next_key, rest),
        K, M)

getNextMapKey(map_fd, key, next_key, rest, K, M) ==
    bpf("BPF_MAP_GET_NEXT_KEY", getNextMapKeyAttr(map_fd, key, next_key, rest),
        K, M)

getFirstMapKey(map_fd, firstKey, rest, K, M) ==
    getNextMapKey(map_fd, NULL, firstKey, rest, K, M)

bpfFdPinAttr(map_fd, pathname, rest) ==
    [ZeroAttr EXCEPT !.pathname = ptr_to_u64(pathname), !.bpf_fd = map_fd,
                     !.rest = rest]

\* A pin that closes the descriptor it was given when the kernel refuses.
bpfFdPinClosing(map_fd, pathname, rest, K, M) ==
    LET r == bpf("BPF_OBJ_PIN", bpfFdPinAttr(map_fd, pathname, rest), K, M)
    IN IF r.ret < 0 /\ map_fd \in DOMAIN K.fdt
       THEN [r EXCEPT !.K.fdt[map_fd] = NoObj]
       ELSE r

bpfFdPin(map_fd, pathname, rest, K, M) ==
    bpf("BPF_OBJ_PIN", bpfFdPinAttr(map_fd, pathname, rest), K, M)

bpfFdGetAttr(pathname, flag, rest) ==
    [ZeroAttr EXCEPT !.pathname = ptr_to_u64(pathname), !.file_flags = flag,
                     !.rest = rest]

bpfFdGet(pathname, flag, rest, K, M) ==
    bpf("BPF_OBJ_GET", bpfFdGetAttr(pathname, flag, rest), K, M)

mapRetrieve(pathname, flag, rest, K, M) == bpfFdGet(pathname, flag, rest, K, M)

\* An attachProgram with the two descriptors exchanged.
attachProgramAttrSwapped(type, prog_fd, cg_fd, rest) ==
    [ZeroAttr EXCEPT !.target_fd = prog_fd, !.attach_bpf_fd = cg_fd,
                     !.attach_type = type, !.rest = rest]

attachProgramAttr(type, prog_fd, cg_fd, rest) ==
    [ZeroAttr EXCEPT !.target_fd = cg_fd, !.attach_bpf_fd = prog_fd,
                     !.attach_type = type, !.rest = rest]

attachProgram(type, prog_fd, cg_fd, rest, K, M) ==
    bpf("BPF_PROG_ATTACH", attachProgramAttr(type, prog_fd, cg_fd, rest), K, M)

detachProgramAttr(type, cg_fd, rest) ==
    [ZeroAttr EXCEPT !.target_fd = cg_fd, !.attach_type = type, !.rest = rest]

detachProgram(type, cg_fd, rest, K, M) ==
    bpf("BPF_PROG_DETACH", detachProgramAttr(type, cg_fd, rest), K, M)

(***************************************************************************)
(* The callers.  hist holds the last `window` calls, newest last.          *)
(***************************************************************************)
NoArgs ==
    [fd |-> 0, prog |-> 0, key |-> <<>>, value |-> <<>>, flags |-> 0,
     path |-> <<>>, type |-> 0, map_type |-> 0, key_size |-> 0,
     value_size |-> 0, max_entries |-> 0]

\* The record of one call: the operation, its arguments, what it returned,
\* what the kernel wrote to the caller's output buffer, the syscalls issued.
Call(op, args, r, out) ==
    [op |-> op, args |-> args, ret |-> r.ret, err |-> r.err, out |-> out,
     sys |-> r.sys]

Keep(s) == IF Len(s) > window THEN Tail(s) ELSE s

Returned(op, args, r, out) ==
    /\ kernel' = r.K
    /\ hist' = Keep(Append(hist, Call(op, args, r, out)))

\* Descriptor numbers a caller may pass: every slot of its descriptor table,
\* open or not.
Fds == DOMAIN kernel.fdt
\* For a map operation: the control group's descriptor (not a map) and the
\* slots a map descriptor can occupy.
MapFdArgs == Fds \ {ProgFd}
ProgFdArgs == Fds \ {CgFd}
CgFdArgs == Fds \ {ProgFd}

\* The sizes a caller uses for the buffers it passes with descriptor fd.
KeySizeOf(fd) == IF IsMapFd(kernel, fd) THEN MapOf(kernel, fd).key_size ELSE 1
ValueSizeOf(fd) == IF IsMapFd(kernel, fd) THEN MapOf(kernel, fd).value_size ELSE 1
Buffers(n) == [1..n -> Bytes]

\* No enumeration is running (a map is not modified during one).
Quiet == enum.state # "running"

CreateMap ==
    /\ Quiet
    /\ FreeFds(kernel) # {}
    /\ \E mt \in MapTypes, ks \in KeySizes, vs \in ValueSizes,
          me \in 1..MaxEntries, mf \in MapFlags, rest \in UnsetBytes :
         LET r == createMap(mt, ks, vs, me, mf, rest, kernel,
                            Memory(Untouched, Untouched, Untouched))
         IN Returned("createMap",
                     [NoArgs EXCEPT !.map_type = mt, !.key_size = ks,
                                    !.value_size = vs, !.max_entries = me,
                                    !.flags = mf], r, Untouched)
    /\ UNCHANGED <<window, enum, pc, slots, tres>>

WriteToMapEntry ==
    /\ Quiet
    /\ \E fd \in MapFdArgs, flags \in WriteFlags, rest \in UnsetBytes :
         \E k \in Buffers(KeySizeOf(fd)), v \in Buffers(ValueSizeOf(fd)) :
           LET r == writeToMapEntry(fd, KeyBuf, ValueBuf, flags, rest, kernel,
                                    Memory(k, v, Untouched))
           IN Returned("writeToMapEntry",
                       [NoArgs EXCEPT !.fd = fd, !.key = k, !.value = v,
                                      !.flags = flags], r, Untouched)
    /\ UNCHANGED <<window, enum, pc, slots, tres>>

FindMapEntry ==
    /\ Quiet
    /\ \E fd \in MapFdArgs, rest \in UnsetBytes :
         \E k \in Buffers(KeySizeOf(fd)) :
           LET r == findMapEntry(fd, KeyBuf, ValueBuf, rest, kernel,
                                 Memory(k, Untouched, Untouched))
           IN Returned("findMapEntry", [NoArgs EXCEPT !.fd = fd, !.key = k],
                       r, r.M[ValueBuf])
    /\ UNCHANGED <<window, enum, pc, slots, tres>>

DeleteMapEntry ==
    /\ Quiet
    /\ \E fd \in MapFdArgs, rest \in UnsetBytes :
         \E k \in Buffers(KeySizeOf(fd)) :
           LET r == deleteMapEntry(fd, KeyBuf, rest, kernel,
                                   Memory(k, Untouched, Untouched))
           IN Returned("deleteMapEntry", [NoArgs EXCEPT !.fd = fd, !.key = k],
                       r, Untouched)
    /\ UNCHANGED <<window, enum, pc, slots, tres>>

GetNextMapKey ==
    /\ Quiet
    /\ \E fd \in MapFdArgs, rest \in UnsetBytes :
         \E k \in Buffers(KeySizeOf(fd)) :
           LET r == getNextMapKey(fd, KeyBuf, NextKeyBuf, rest, kernel,
                                  Memory(k, Untouched, Untouched))
           IN Returned("getNextMapKey", [NoArgs EXCEPT !.fd = fd, !.key = k],
                       r, r.M[NextKeyBuf])
    /\ UNCHANGED <<window, enum, pc, slots, tres>>

GetFirstMapKey ==
    /\ Quiet
    /\ \E fd \in MapFdArgs, rest \in UnsetBytes :
         LET r == getFirstMapKey(fd, NextKeyBuf, rest, kernel,
                                 Memory(Untouched, Untouched, Untouched))
         IN Returned("getFirstMapKey", [NoArgs EXCEPT !.fd = fd], r,
                     r.M[NextKeyBuf])
    /\ UNCHANGED <<window, enum, pc, slots, tres>>

BpfFdPin ==
    /\ \E fd \in Fds, p \in Paths, rest \in UnsetBytes :
         LET r == bpfFdPin(fd, PathBuf, rest, kernel,
                           Memory(Untouched, Untouched, p))
         IN Returned("bpfFdPin", [NoArgs EXCEPT !.fd = fd, !.path = p], r,
                     Untouched)
    /\ UNCHANGED <<window, enum, pc, slots, tres>>

BpfFdGet ==
    /\ FreeFds(kernel) # {}
    /\ \E p \in Paths, flag \in FileFlags, rest \in UnsetBytes :
         LET r == bpfFdGet(PathBuf, flag, rest, kernel,
                           Memory(Untouched, Untouched, p))
         IN Returned("bpfFdGet", [NoArgs EXCEPT !.path = p, !.flags = flag], r,
                     Untouched)
    /\ UNCHANGED <<window, enum, pc, slots, tres>>

MapRetrieve ==
    /\ FreeFds(kernel) # {}
    /\ \E p \in Paths, flag \in FileFlags, rest \in UnsetBytes :
         LET r == mapRetrieve(PathBuf, flag, rest, kernel,
                              Memory(Untouched, Untouched, p))
         IN Returned("mapRetrieve", [NoArgs EXCEPT !.path = p, !.flags = flag],
                     r, Untouched)
    /\ UNCHANGED <<window, enum, pc, slots, tres>>

AttachProgram ==
    /\ \E type \in AttachTypes, prog \in ProgFdArgs, cg \in CgFdArgs,
          rest \in UnsetBytes :
         LET r == attachProgram(type, prog, cg, rest, kernel,
                                Memory(Untouched, Untouched, Untouched))
         IN Returned("attachProgram",
                     [NoArgs EXCEPT !.type = type, !.prog = prog, !.fd = cg], r,
                     Untouched)
    /\ UNCHANGED <<window, enum, pc, slots, tres>>

DetachProgram ==
    /\ \E type \in AttachTypes, cg \in CgFdArgs, rest \in UnsetBytes :
         LET r == detachProgram(type, cg, rest, kernel,
                                Memory(Untouched, Untouched, Untouched))
         IN Returned("detachProgram", [NoArgs EXCEPT !.type = type, !.fd = cg],
                     r, Untouched)
    /\ UNCHANGED <<window, enum, pc, slots, tres>>

\* The key set the map behind descriptor fd holds.
KeysOf(K, fd) == {MapOf(K, fd).entries[i].k : i \in 1..Len(MapOf(K, fd).entries)}

(***************************************************************************)
(* The iteration protocol: getFirstMapKey, then getNextMapKey with the key *)
(* returned last, until a call fails.  The caller reads a negative result  *)
(* as the end of the iteration.                                            *)
(***************************************************************************)
EnumFirst ==
    /\ Quiet
    /\ \E fd \in {f \in Fds : IsMapFd(kernel, f)}, rest \in UnsetBytes :
         LET r == getFirstMapKey(fd, NextKeyBuf, rest, kernel,
                                 Memory(Untouched, Untouched, Untouched))
         IN /\ Returned("getFirstMapKey", [NoArgs EXCEPT !.fd = fd], r,
                        r.M[NextKeyBuf])
            /\ enum' = IF r.ret = 0
                       THEN [state |-> "running", fd |-> fd,
                             keys |-> KeysOf(kernel, fd), err |-> r.err,
                             visited |-> <<r.M[NextKeyBuf]>>]
                       ELSE [state |-> "done", fd |-> fd,
                             keys |-> KeysOf(kernel, fd), err |-> r.err,
                             visited |-> <<>>]
    /\ UNCHANGED <<window, pc, slots, tres>>

EnumNext ==
    /\ enum.state = "running"
    /\ Len(enum.visited) <= MaxEntries
    /\ \E rest \in UnsetBytes :
         LET k == enum.visited[Len(enum.visited)]
             r == getNextMapKey(enum.fd, KeyBuf, NextKeyBuf, rest, kernel,
                                Memory(k, Untouched, Untouched))
         IN /\ Returned("getNextMapKey",
                        [NoArgs EXCEPT !.fd = enum.fd, !.key = k], r,
                        r.M[NextKeyBuf])
            /\ enum' = IF r.ret = 0
                       THEN [enum EXCEPT !.visited = Append(@, r.M[NextKeyBuf])]
                       ELSE [enum EXCEPT !.state = "done", !.err = r.err]
    /\ UNCHANGED <<window, pc, slots, tres>>

(***************************************************************************)
(* Initial states.                                                         *)
(***************************************************************************)
\* A process holding a loaded program (descriptor 3) and a control group
\* (descriptor 4), both obtained outside this layer, with a descriptor table
\* of slots 3..n; no map, pin or attachment.
InitKernel(n) ==
    [fdt |-> [fd \in ProgFd..n |-> IF fd = ProgFd THEN Prog
                                   ELSE IF fd = CgFd THEN Cgroup ELSE NoObj],
     maps |-> <<>>,
     pins |-> [p \in Paths |-> NoObj],
     att |-> [t \in AttachTypes |-> NoObj]]

\* The kernel after one successful createMap of a hash map.
KernelWithMap(n) ==
    createMap(1, 1, 1, MaxEntries, 0, 0, InitKernel(n),
              Memory(Untouched, Untouched, Untouched)).K

IdleEnum ==
    [state |-> "idle", fd |-> 0, keys |-> {}, err |-> "none", visited |-> <<>>]

InitWith(K, w) ==
    /\ kernel = K
    /\ hist = <<>>
    /\ window = w
    /\ enum = IdleEnum
    /\ pc = [t \in 1..NThreads |-> "off"]
    /\ slots = <<>>
    /\ tres = <<>>

\* Every operation, any order.
Init == InitWith(InitKernel(MaxFd), 1)

Next ==
    \/ CreateMap
    \/ WriteToMapEntry
    \/ FindMapEntry
    \/ DeleteMapEntry
    \/ GetNextMapKey
    \/ GetFirstMapKey
    \/ BpfFdPin
    \/ BpfFdGet
    \/ MapRetrieve
    \/ AttachProgram
    \/ DetachProgram

Spec == Init /\ [][Next]_vars

\* The map operations, remembering the last two calls.
InitMap == InitWith(InitKernel(MaxFd), 2)

NextMap ==
    \/ CreateMap
    \/ WriteToMapEntry
    \/ FindMapEntry
    \/ DeleteMapEntry
    \/ GetNextMapKey
    \/ GetFirstMapKey

SpecMap == InitMap /\ [][NextMap]_vars

\* The map operations on a process with room for two maps.
InitFrame == InitWith(InitKernel(MaxFd + 1), 1)

NextFrame ==
    \/ CreateMap
    \/ WriteToMapEntry
    \/ FindMapEntry
    \/ DeleteMapEntry
    \/ GetNextMapKey
    \/ GetFirstMapKey

SpecFrame == InitFrame /\ [][NextFrame]_vars

\* A caller that fills maps and enumerates them.
InitEnum == InitWith(InitKernel(MaxFd), 1)

NextEnum ==
    \/ CreateMap
    \/ WriteToMapEntry
    \/ DeleteMapEntry
    \/ EnumFirst
    \/ EnumNext

SpecEnum == InitEnum /\ [][NextEnum]_vars

\* Pinning and retrieving, by a process that holds one map and has one more
\* descriptor slot for the retrieved handle.
InitPin == InitWith(KernelWithMap(MaxFd + 1), 1)

NextPin ==
    \/ WriteToMapEntry
    \/ FindMapEntry
    \/ BpfFdPin
    \/ BpfFdGet
    \/ MapRetrieve

SpecPin == InitPin /\ [][NextPin]_vars

\* Attaching and detaching, remembering the last three calls.
InitAttach == InitWith(InitKernel(MaxFd), 3)

NextAttach ==
    \/ AttachProgram
    \/ DetachProgram

SpecAttach == InitAttach /\ [][NextAttach]_vars

(***************************************************************************)
(* Concurrent callers of one map handle.  A call is two steps: the thread  *)
(* evaluates the braced initializer into the temporary bpf_attr that       *)
(* bpf()'s reference parameter binds to, then bpf() issues the syscall,    *)
(* which the kernel carries out as one step on the map.                    *)
(***************************************************************************)
Threads == 1..NThreads

\* A bpf() that keeps its attribute record in one static object.
AttrSlotStatic(t) == 1

\* The storage of thread t's attribute record: a temporary of its own call.
AttrSlot(t) == t

NoRequest == [cmd |-> "none", attr |-> ZeroAttr,
              M |-> Memory(Untouched, Untouched, Untouched)]

\* The calls a thread makes on map descriptor fd: the command, the record
\* the wrapper builds and the buffers it points to.
Requests(fd) ==
    LET Ks == Buffers(KeySizeOf(fd))
        Vs == Buffers(ValueSizeOf(fd))
    IN {[cmd |-> "BPF_MAP_UPDATE_ELEM",
         attr |-> writeToMapEntryAttr(fd, KeyBuf, ValueBuf, fl, rest),
         M |-> Memory(k, v, Untouched)] :
           k \in Ks, v \in Vs, fl \in {0, 1}, rest \in UnsetBytes}
       \cup {[cmd |-> "BPF_MAP_LOOKUP_ELEM",
              attr |-> findMapEntryAttr(fd, KeyBuf, ValueBuf, rest),
              M |-> Memory(k, Untouched, Untouched)] :
                k \in Ks, rest \in UnsetBytes}
       \cup {[cmd |-> "BPF_MAP_DELETE_ELEM",
              attr |-> deleteMapEntryAttr(fd, KeyBuf, rest),
              M |-> Memory(k, Untouched, Untouched)] :
                k \in Ks, rest \in UnsetBytes}
       \cup {[cmd |-> "BPF_MAP_GET_NEXT_KEY",
              attr |-> getNextMapKeyAttr(fd, KeyBuf, NextKeyBuf, rest),
              M |-> Memory(k, Untouched, Untouched)] :
                k \in Ks, rest \in UnsetBytes}

TheMapFd == CHOOSE fd \in Fds : IsMapFd(kernel, fd)

ThreadBuild(t) ==
    /\ pc[t] = "idle"
    /\ \E req \in Requests(TheMapFd) :
         /\ slots' = [slots EXCEPT ![AttrSlot(t)] = req]
         /\ tres' = [tres EXCEPT ![t] = [call |-> req, ret |-> 0, err |-> "none",
                                         M |-> req.M]]
    /\ pc' = [pc EXCEPT ![t] = "built"]
    /\ UNCHANGED <<kernel, hist, window, enum>>

ThreadSyscall(t) ==
    /\ pc[t] = "built"
    /\ LET req == slots[AttrSlot(t)]
           r == bpf(req.cmd, req.attr, kernel, req.M)
       IN /\ kernel' = r.K
          /\ tres' = [tres EXCEPT ![t] = [@ EXCEPT !.ret = r.ret, !.err = r.err,
                                                   !.M = r.M]]
    /\ pc' = [pc EXCEPT ![t] = "done"]
    /\ UNCHANGED <<hist, window, enum, slots>>

InitConc ==
    /\ kernel = KernelWithMap(MaxFd)
    /\ hist = <<>>
    /\ window = 1
    /\ enum = IdleEnum
    /\ pc = [t \in Threads |-> "idle"]
    /\ slots = [t \in Threads |-> NoRequest]
    /\ tres = [t \in Threads |-> [call |-> NoRequest, ret |-> 0, err |-> "none",
                                  M |-> NoRequest.M]]

NextConc == \E t \in Threads : ThreadBuild(t) \/ ThreadSyscall(t)

SpecConc == InitConc /\ [][NextConc]_vars

(***************************************************************************)
(* Properties.                                                             *)
(***************************************************************************)
Last == hist[Len(hist)]
Prev == hist[Len(hist) - 1]
\* The attribute record of call c (of its one syscall).
AttrOf(c) == c.sys[1].attr
\* Every byte the initializer of call c did not name was zero.
Zeroed(c) == \A i \in 1..Len(c.sys) : c.sys[i].attr.rest = 0

WroteThenFound ==
    /\ Len(hist) >= 2
    /\ Prev.op = "writeToMapEntry" /\ Prev.ret = 0
    /\ Last.op = "findMapEntry"
    /\ Last.args.fd = Prev.args.fd /\ Last.args.key = Prev.args.key

\* C1: a writeToMapEntry(map, k, v, flags) that returns 0, followed at once
\* by findMapEntry(map, k, out), makes the find return 0 with out holding
\* exactly the bytes of v.
C1_RoundTrip ==
    WroteThenFound => Last.ret = 0 /\ Last.out = Prev.args.value

\* The round trip of C1 for the finds whose attribute record was fully zero.
RoundTripWhenZeroed ==
    WroteThenFound /\ Zeroed(Last) => Last.ret = 0 /\ Last.out = Prev.args.value

RoundTripReached == WroteThenFound /\ Zeroed(Last) /\ Last.out = Prev.args.value

DeletedThen(op) ==
    /\ Len(hist) >= 2
    /\ Prev.op = "deleteMapEntry" /\ Prev.ret = 0
    /\ Last.op = op
    /\ Last.args.fd = Prev.args.fd /\ Last.args.key = Prev.args.key

\* C2: after a key was written and then deleted with success (every map
\* starts empty, so a delete of k that returns 0 follows a write of k that
\* returned 0), a following findMapEntry of that key returns a negative
\* result with the "not found" error, and a second deleteMapEntry of it
\* returns a negative result.
C2_DeleteThenFind ==
    /\ DeletedThen("findMapEntry") => Last.ret < 0 /\ Last.err = "ENOENT"
    /\ DeletedThen("deleteMapEntry") => Last.ret < 0

\* C2 for the calls whose attribute record was fully zero.
DeleteThenFindWhenZeroed ==
    /\ DeletedThen("findMapEntry") /\ Zeroed(Last)
         => Last.ret < 0 /\ Last.err = "ENOENT"
    /\ DeletedThen("deleteMapEntry") => Last.ret < 0

\* The elements of sequence q, as a set.
Range(q) == {q[i] : i \in 1..Len(q)}

\* C3: an enumeration (getFirstMapKey, then getNextMapKey with the key
\* returned last, on a map not modified meanwhile) ends, at its first
\* negative result, having returned every key of the map exactly once:
\* exactly |S| successful calls.
C3_Enumeration ==
    enum.state = "done" =>
        /\ Range(enum.visited) = enum.keys
        /\ Len(enum.visited) = Cardinality(enum.keys)

\* The enumeration never returns a key twice nor a key the map does not
\* hold, and it ends after at most |S| successful calls.
EnumerationNoDuplicates ==
    /\ Range(enum.visited) \subseteq enum.keys
    /\ Len(enum.visited) = Cardinality(Range(enum.visited))

\* C3 for the enumerations all of whose records were fully zero: the call
\* that ended it failed with "not found".
EnumerationWhenZeroed ==
    enum.state = "done" /\ enum.err = "ENOENT" =>
        /\ Range(enum.visited) = enum.keys
        /\ Len(enum.visited) = Cardinality(enum.keys)

\* The fields the initializer of each command names.
SetFields(cmd) ==
    CASE cmd = "BPF_MAP_CREATE" ->
           {"map_type", "key_size", "value_size", "max_entries", "map_flags"}
      [] cmd = "BPF_MAP_UPDATE_ELEM" -> {"map_fd", "key", "value", "flags"}
      [] cmd = "BPF_MAP_LOOKUP_ELEM" -> {"map_fd", "key", "value"}
      [] cmd = "BPF_MAP_DELETE_ELEM" -> {"map_fd", "key"}
      [] cmd = "BPF_MAP_GET_NEXT_KEY" -> {"map_fd", "key", "next_key"}
      [] cmd = "BPF_OBJ_PIN" -> {"pathname", "bpf_fd"}
      [] cmd = "BPF_OBJ_GET" -> {"pathname", "file_flags"}
      [] cmd = "BPF_PROG_ATTACH" -> {"target_fd", "attach_bpf_fd", "attach_type"}
      [] OTHER -> {"target_fd", "attach_type"}

\* C6: the attribute record handed to every syscall has every field and
\* byte outside the fields its command sets equal to zero, over the whole
\* sizeof(bpf_attr).
C6_ZeroInitialized ==
    \A i \in 1..Len(hist) : \A j \in 1..Len(hist[i].sys) :
        LET sc == hist[i].sys[j]
        IN \A f \in DOMAIN sc.attr \ SetFields(sc.cmd) : sc.attr[f] = 0

\* The named fields of the record outside the command's own are zero (the
\* part of C6 the initializer does guarantee).
NamedFieldsZero ==
    \A i \in 1..Len(hist) : \A j \in 1..Len(hist[i].sys) :
        LET sc == hist[i].sys[j]
        IN \A f \in DOMAIN sc.attr \ (SetFields(sc.cmd) \cup {"rest"}) :
              sc.attr[f] = 0

\* The command each operation issues.
CmdOf(op) ==
    CASE op = "createMap" -> "BPF_MAP_CREATE"
      [] op = "writeToMapEntry" -> "BPF_MAP_UPDATE_ELEM"
      [] op = "findMapEntry" -> "BPF_MAP_LOOKUP_ELEM"
      [] op = "deleteMapEntry" -> "BPF_MAP_DELETE_ELEM"
      [] op \in {"getNextMapKey", "getFirstMapKey"} -> "BPF_MAP_GET_NEXT_KEY"
      [] op = "bpfFdPin" -> "BPF_OBJ_PIN"
      [] op \in {"bpfFdGet", "mapRetrieve"} -> "BPF_OBJ_GET"
      [] op = "attachProgram" -> "BPF_PROG_ATTACH"
      [] OTHER -> "BPF_PROG_DETACH"

\* C7: every call of every operation issues exactly one bpf syscall, of the
\* operation's command, and returns that syscall's result and error
\* unchanged; a failure is followed by no second syscall.
C7_OneSyscallVerbatim ==
    \A i \in 1..Len(hist) :
        /\ Len(hist[i].sys) = 1
        /\ hist[i].sys[1].cmd = CmdOf(hist[i].op)
        /\ hist[i].ret = hist[i].sys[1].ret
        /\ hist[i].err = hist[i].sys[1].err

\* A call the kernel refused for a reason of its own has returned.
C7_FailureReturned ==
    /\ Len(hist) >= 1
    /\ Last.ret < 0 /\ Last.err \in {"ENOENT", "EEXIST", "ENOSPC", "EBADF"}
    /\ Len(Last.sys) = 1

\* The kernel object descriptor fd refers to is live in K.
Live(K, o) ==
    CASE o.kind = "map" -> o.id \in 1..Len(K.maps)
      [] OTHER -> TRUE

\* C8: no operation, failing or not, closes, replaces or invalidates a
\* handle the caller holds: every open descriptor refers to the same live
\* kernel object after the call as before it.
C8_HandlesStayValid ==
    [][\A fd \in DOMAIN kernel.fdt :
          kernel.fdt[fd].kind # "none" =>
              /\ kernel'.fdt[fd] = kernel.fdt[fd]
              /\ Live(kernel', kernel.fdt[fd])]_vars

\* A failed pin of an open descriptor has returned and the descriptor is
\* still open.
C8_FailedPinKeepsHandle ==
    /\ Len(hist) >= 1
    /\ Last.op = "bpfFdPin" /\ Last.ret < 0
    /\ IsOpen(kernel, Last.args.fd)

\* C10: findMapEntry, getNextMapKey and getFirstMapKey never change the
\* contents of any map, and a writeToMapEntry or deleteMapEntry that
\* returns a negative result leaves every map as it was.
C10_ReadsAndFailuresFrame ==
    [][(/\ hist' # <<>>
        /\ LET c == hist'[Len(hist')]
           IN \/ c.op \in {"findMapEntry", "getNextMapKey", "getFirstMapKey"}
              \/ c.op \in {"writeToMapEntry", "deleteMapEntry"} /\ c.ret < 0)
       => kernel'.maps = kernel.maps]_vars

\* A write refused because the map is full, or a successful getNextMapKey,
\* has returned on a map that holds entries.
C10_FrameReached ==
    /\ Len(hist) >= 1
    /\ \/ Last.op = "writeToMapEntry" /\ Last.err = "ENOSPC"
       \/ Last.op = "getNextMapKey" /\ Last.ret = 0
    /\ IsMapFd(kernel, Last.args.fd)
    /\ MapOf(kernel, Last.args.fd).entries # <<>>
    /\ \E b \in DOMAIN kernel.fdt :
         /\ IsMapFd(kernel, b) /\ kernel.fdt[b] # kernel.fdt[Last.args.fd]
         /\ MapOf(kernel, b).entries # <<>>

PinnedThenGot(h, h2) ==
    /\ h # <<>> /\ h2 # <<>>
    /\ h[Len(h)].op = "bpfFdPin" /\ h[Len(h)].ret = 0
    /\ h2[Len(h2)].op \in {"bpfFdGet", "mapRetrieve"}
    /\ h2[Len(h2)].args.path = h[Len(h)].args.path

\* C4: after bpfFdPin(h, path) returns 0, bpfFdGet / mapRetrieve of that
\* path returns a new non-negative descriptor, different from h, for the
\* same kernel object; what is written through one handle of an object is
\* read back through every other; pinning at a path that exists and
\* retrieving from a path never pinned return a negative result.
C4_PinThenRetrieve ==
    [][/\ PinnedThenGot(hist, hist') =>
            LET h == hist[Len(hist)].args.fd
                got == hist'[Len(hist')].ret
            IN /\ got >= 0 /\ got # h
               /\ kernel'.fdt[got] = kernel.fdt[h]
       /\ (/\ hist # <<>> /\ hist' # <<>>
           /\ hist[Len(hist)].op = "writeToMapEntry" /\ hist[Len(hist)].ret = 0
           /\ hist'[Len(hist')].op = "findMapEntry"
           /\ hist'[Len(hist')].args.key = hist[Len(hist)].args.key
           /\ IsMapFd(kernel, hist'[Len(hist')].args.fd)
           /\ hist'[Len(hist')].args.fd # hist[Len(hist)].args.fd
           /\ kernel.fdt[hist'[Len(hist')].args.fd]
                = kernel.fdt[hist[Len(hist)].args.fd])
          => /\ hist'[Len(hist')].ret = 0
             /\ hist'[Len(hist')].out = hist[Len(hist)].args.value
       /\ (/\ hist' # <<>> /\ hist' # hist
           /\ hist'[Len(hist')].op = "bpfFdPin"
           /\ kernel.pins[hist'[Len(hist')].args.path] # NoObj)
          => hist'[Len(hist')].ret < 0
       /\ (/\ hist' # <<>> /\ hist' # hist
           /\ hist'[Len(hist')].op \in {"bpfFdGet", "mapRetrieve"}
           /\ kernel.pins[hist'[Len(hist')].args.path] = NoObj)
          => hist'[Len(hist')].ret < 0]_vars

\* C4 for the calls whose attribute record was fully zero.
PinThenRetrieveWhenZeroed ==
    [][/\ (PinnedThenGot(hist, hist') /\ Zeroed(hist'[Len(hist')])) =>
            LET h == hist[Len(hist)].args.fd
                got == hist'[Len(hist')].ret
            IN /\ got >= 0 /\ got # h
               /\ kernel'.fdt[got] = kernel.fdt[h]
       /\ (/\ hist # <<>> /\ hist' # <<>>
           /\ hist[Len(hist)].op = "writeToMapEntry" /\ hist[Len(hist)].ret = 0
           /\ hist'[Len(hist')].op = "findMapEntry"
           /\ Zeroed(hist'[Len(hist')])
           /\ hist'[Len(hist')].args.key = hist[Len(hist)].args.key
           /\ IsMapFd(kernel, hist'[Len(hist')].args.fd)
           /\ hist'[Len(hist')].args.fd # hist[Len(hist)].args.fd
           /\ kernel.fdt[hist'[Len(hist')].args.fd]
                = kernel.fdt[hist[Len(hist)].args.fd])
          => /\ hist'[Len(hist')].ret = 0
             /\ hist'[Len(hist')].out = hist[Len(hist)].args.value
       /\ (/\ hist' # <<>> /\ hist' # hist
           /\ hist'[Len(hist')].op = "bpfFdPin"
           /\ kernel.pins[hist'[Len(hist')].args.path] # NoObj)
          => hist'[Len(hist')].ret < 0
       /\ (/\ hist' # <<>> /\ hist' # hist
           /\ hist'[Len(hist')].op \in {"bpfFdGet", "mapRetrieve"}
           /\ kernel.pins[hist'[Len(hist')].args.path] = NoObj)
          => hist'[Len(hist')].ret < 0]_vars

\* Two descriptors of one map are open and a find through one has returned
\* a value.
TwoHandlesReached ==
    /\ \E a, b \in DOMAIN kernel.fdt :
         a # b /\ IsMapFd(kernel, a) /\ kernel.fdt[a] = kernel.fdt[b]
    /\ hist # <<>> /\ Last.op = "findMapEntry" /\ Last.ret = 0
    /\ \E b \in DOMAIN kernel.fdt :
         b # Last.args.fd /\ kernel.fdt[b] = kernel.fdt[Last.args.fd]

SamePoint(c, d) == c.args.type = d.args.type /\ c.args.fd = d.args.fd

Orders == {f \in [Threads -> Threads] : \A a, b \in Threads : f[a] = f[b] => a = b}

RECURSIVE Sequential(_, _, _, _)
\* The kernel and the results after the calls of tres are made one after
\* the other in the order `order`, from kernel K.
Sequential(order, i, K, acc) ==
    IF i > NThreads THEN [K |-> K, res |-> acc]
    ELSE LET t == order[i]
             c == tres[t].call
             r == bpf(c.cmd, c.attr, K, c.M)
         IN Sequential(order, i + 1, r.K,
                       [acc EXCEPT ![t] = [ret |-> r.ret, err |-> r.err, M |-> r.M]])

AllDone == \A t \in Threads : pc[t] = "done"

\* C9: when threads call operations on one map handle concurrently, the
\* result of every call and the final contents of the map are those of the
\* same calls made one after the other in some order.
C9_Linearizable ==
    AllDone =>
        \E order \in Orders :
            LET q == Sequential(order, 1, KernelWithMap(MaxFd),
                                [t \in Threads |-> [ret |-> 0, err |-> "none",
                                                    M |-> NoRequest.M]])
            IN /\ q.K = kernel
               /\ \A t \in Threads :
                     /\ tres[t].ret = q.res[t].ret
                     /\ tres[t].err = q.res[t].err
                     /\ tres[t].M = q.res[t].M

\* Two threads have finished calls on the same key whose results depend on
\* the order: a write with BPF_NOEXIST that succeeded and one that was
\* refused because the key exists.
C9_RaceReached ==
    /\ AllDone
    /\ \E a, b \in Threads :
         /\ a # b
         /\ tres[a].call.cmd = "BPF_MAP_UPDATE_ELEM" /\ tres[a].ret = 0
         /\ tres[b].call.cmd = "BPF_MAP_UPDATE_ELEM" /\ tres[b].err = "EEXIST"

====
